---- MODULE Spec2Model ----
(***************************************************************************)
(* Model of CGAL/Tetrahedral_remeshing/Remeshing_triangulation_3.h:        *)
(* the vertex and cell converters (internal:: and public variants), the    *)
(* two build functions that copy a triangulation through them, and the     *)
(* Default_remeshing_visitor.                                              *)
(*                                                                         *)
(* Three specifications share the module:                                  *)
(*   SpecConv    - one converter applied to one source/target element      *)
(*   Spec        - build_remeshing_triangulation, then                     *)
(*                 build_from_remeshing_triangulation                      *)
(*   SpecVisitor - calls of the visitor's five hooks on a triangulation    *)
(***************************************************************************)
EXTENDS Integers, Sequences, FiniteSets, TLC

\* ---------------------------------------------------------------- bounds
\* Coordinates of a point range over 0..MaxCoord.
MaxCoord == 1
\* Time stamps range over UnsetStamp..MaxStamp.
MaxStamp == 1
\* Subdomain indices and cell infos range over 0..MaxDomain.
MaxDomain == 1
\* At most MaxOps + 1 converter calls on one target element.
MaxOps == 2
\* At most MaxCalls visitor hook calls.
MaxCalls == 3

\* ------------------------------------------------------ program constants
\* set_time_stamp(-1)
UnsetStamp == -1
\* set_dimension(3)
FreshDimension == 3

VARIABLES
  \* SpecConv: which converter, its arguments and the calls made so far
  kind, policy, src, tgt, prev, hist,
  \* Spec: the three triangulations and the position in the two builds
  tr, remeshing_tr, tr2, prior, pc, V1, F1, V2, F2, err,
  \* SpecVisitor: the triangulation, its m_visitor and the hook calls
  vtr, m_visitor, calls, hook

convVars == <<kind, policy, src, tgt, prev, hist>>
cloneVars == <<tr, remeshing_tr, tr2, prior, pc, V1, F1, V2, F2, err>>
visitorVars == <<vtr, m_visitor, calls, hook>>
vars == <<kind, policy, src, tgt, prev, hist,
          tr, remeshing_tr, tr2, prior, pc, V1, F1, V2, F2, err,
          vtr, m_visitor, calls, hook>>

\* ---------------------------------------------------------- element model
Coords == 0..MaxCoord
Points == [1..3 -> Coords]
\* "-1 if unset, 0,1,2, or 3 if set"
Dimensions == (-1)..3
Stamps == UnsetStamp..MaxStamp
Subdomains == 0..MaxDomain
NoCell == 0
NoElement == [absent |-> TRUE]
NullRefs == <<0, 0, 0, 0>>

\* A vertex: point, dimension, info (the preserving variant's source stores
\* an integer there), time stamp.
Vertices == [point : Points, dim : Dimensions, info : Dimensions, stamp : Stamps]

\* A cell: its identity, 4 vertex handles, 4 neighbour handles, subdomain
\* index, info, input_cell back-reference, time stamp.
CellPayloads(ids) ==
  [id : ids, v : {NullRefs}, n : {NullRefs}, subdomain : Subdomains,
   info : Subdomains, input : {NoCell} \cup ids, stamp : Stamps]

\* CGAL::Cartesian_converter<GT_src, GT_tgt>: the coordinates are re-expressed
\* in the target kernel's number type, which holds the even values only.
ConvCoord(x) == x - (x % 2)
Conv(p) == [k \in 1..3 |-> ConvCoord(p[k])]

\* -------------------------------------------------- internal::Vertex_converter
\* Faulty variant: the create operator without set_time_stamp(-1).
internal_Vertex_converter_create_NoStamp(v_src, v_tgt) ==
  [v_tgt EXCEPT !.point = Conv(v_src.point), !.dim = FreshDimension]

\* operator()(v_src): v_tgt is the default-constructed vertex.
internal_Vertex_converter_create(v_src, v_tgt) ==
  [v_tgt EXCEPT !.point = Conv(v_src.point),
                !.stamp = UnsetStamp,
                !.dim = FreshDimension]

\* operator()(v_src, v_tgt)
internal_Vertex_converter_update(v_src, v_tgt) ==
  [v_tgt EXCEPT !.point = Conv(v_src.point), !.dim = FreshDimension]

\* ---------------------------------------------------- internal::Cell_converter
internal_Cell_converter_create(c_src, c_tgt) ==
  [c_tgt EXCEPT !.subdomain = c_src.subdomain, !.stamp = UnsetStamp]

internal_Cell_converter_update(c_src, c_tgt) ==
  [c_tgt EXCEPT !.subdomain = c_src.subdomain]

\* ------------------------------------------------------------ Vertex_converter
\* Faulty variant: the dimension read from the source's dimension tag.
Vertex_converter_create_FromDim(v_src, v_tgt) ==
  [v_tgt EXCEPT !.point = Conv(v_src.point),
                !.stamp = UnsetStamp,
                !.dim = v_src.dim]

Vertex_converter_create(v_src, v_tgt) ==
  [v_tgt EXCEPT !.point = Conv(v_src.point),
                !.stamp = UnsetStamp,
                !.dim = v_src.info]

Vertex_converter_update(v_src, v_tgt) ==
  [v_tgt EXCEPT !.point = Conv(v_src.point), !.dim = v_src.info]

\* -------------------------------------------------------------- Cell_converter
Cell_converter_create(c_src, c_tgt) ==
  [c_tgt EXCEPT !.info = c_src.info, !.input = c_src.id, !.stamp = UnsetStamp]

\* Faulty variant: the info accumulated instead of assigned.
Cell_converter_update_Accumulate(c_src, c_tgt) ==
  [c_tgt EXCEPT !.info = c_tgt.info + c_src.info + 1, !.input = c_src.id]

Cell_converter_update(c_src, c_tgt) ==
  [c_tgt EXCEPT !.info = c_src.info, !.input = c_src.id]

\* ------------------------------------------------------------------ SpecConv
\* The identities of the source cell and of the target cell.
SrcCellIds == {1}
TgtCellIds == {2}

\* A default-constructed element ("typename TDS_tgt::Vertex v_tgt;"): the
\* members the constructor does not set hold any value.
DefaultVertices ==
  [point : {[k \in 1..3 |-> 0]}, dim : {-1}, info : {-1, 2}, stamp : Stamps]
DefaultCells ==
  [id : TgtCellIds, v : {NullRefs}, n : {NullRefs}, subdomain : Subdomains,
   info : Subdomains, input : {NoCell}, stamp : Stamps]

\* An existing target element handed to the update operator.
ExistingVertices ==
  [point : {[k \in 1..3 |-> MaxCoord]}, dim : {-1, 0}, info : {-1, 2},
   stamp : Stamps]
ExistingCells ==
  [id : TgtCellIds, v : {NullRefs}, n : {NullRefs}, subdomain : Subdomains,
   info : Subdomains, input : {NoCell, 1}, stamp : Stamps]

Policies == {"fresh", "preserving"}

CloneIdle ==
  /\ tr = NoElement /\ remeshing_tr = NoElement /\ tr2 = NoElement
  /\ prior = NoElement /\ pc = "off"
  /\ V1 = <<>> /\ F1 = <<>> /\ V2 = <<>> /\ F2 = <<>> /\ err = "none"

VisitorIdle ==
  /\ vtr = NoElement /\ m_visitor = <<>> /\ calls = 0 /\ hook = <<"off">>

ConvIdle ==
  /\ kind = "off" /\ policy = "off" /\ src = NoElement /\ tgt = NoElement
  /\ prev = NoElement /\ hist = <<>>

InitConv ==
  /\ kind \in {"vertex", "cell"}
  /\ policy \in Policies
  /\ src \in IF kind = "vertex" THEN Vertices ELSE CellPayloads(SrcCellIds)
  /\ tgt \in {NoElement} \cup
             (IF kind = "vertex" THEN ExistingVertices ELSE ExistingCells)
  /\ prev = NoElement
  /\ hist = <<>>
  /\ CloneIdle
  /\ VisitorIdle

\* v_tgt = convert_vertex(v_src)
CreateVertex ==
  /\ kind = "vertex" /\ tgt = NoElement
  /\ \E v0 \in DefaultVertices :
       /\ tgt' = IF policy = "fresh"
                 THEN internal_Vertex_converter_create(src, v0)
                 ELSE Vertex_converter_create(src, v0)
       /\ prev' = v0
  /\ hist' = Append(hist, "create")
  /\ UNCHANGED <<kind, policy, src>>
  /\ UNCHANGED cloneVars /\ UNCHANGED visitorVars

\* convert_vertex(v_src, v_tgt)
UpdateVertex ==
  /\ kind = "vertex" /\ tgt # NoElement /\ Len(hist) <= MaxOps
  /\ tgt' = IF policy = "fresh"
            THEN internal_Vertex_converter_update(src, tgt)
            ELSE Vertex_converter_update(src, tgt)
  /\ prev' = tgt
  /\ hist' = Append(hist, "update")
  /\ UNCHANGED <<kind, policy, src>>
  /\ UNCHANGED cloneVars /\ UNCHANGED visitorVars

\* c_tgt = convert_cell(c_src)
CreateCell ==
  /\ kind = "cell" /\ tgt = NoElement
  /\ \E c0 \in DefaultCells :
       /\ tgt' = IF policy = "fresh"
                 THEN internal_Cell_converter_create(src, c0)
                 ELSE Cell_converter_create(src, c0)
       /\ prev' = c0
  /\ hist' = Append(hist, "create")
  /\ UNCHANGED <<kind, policy, src>>
  /\ UNCHANGED cloneVars /\ UNCHANGED visitorVars

\* convert_cell(c_src, c_tgt)
UpdateCell ==
  /\ kind = "cell" /\ tgt # NoElement /\ Len(hist) <= MaxOps
  /\ tgt' = IF policy = "fresh"
            THEN internal_Cell_converter_update(src, tgt)
            ELSE Cell_converter_update(src, tgt)
  /\ prev' = tgt
  /\ hist' = Append(hist, "update")
  /\ UNCHANGED <<kind, policy, src>>
  /\ UNCHANGED cloneVars /\ UNCHANGED visitorVars

NextConv == CreateVertex \/ UpdateVertex \/ CreateCell \/ UpdateCell

SpecConv == InitConv /\ [][NextConv]_vars

LastOp == IF hist = <<>> THEN "none" ELSE hist[Len(hist)]

\* ---------------------------------------------------- triangulation storage
\* A triangulation: its vertices and cells in the order of the containers
\* (a handle is the position), and the handle of the infinite vertex.
Slots == 1..4

ClearedMesh == [verts |-> <<>>, cells |-> <<>>, inf |-> 0]

\* The vertices of a cell but the one in slot j: the facet opposite to it.
Facet(vs, j) == {vs[k] : k \in Slots \ {j}}
VertexSet(vs) == {vs[k] : k \in Slots}

\* The cell on the other side of the facet opposite to slot j of cell c.
Opposite(vs, c, j) ==
  CHOOSE d \in 1..Len(vs) : d # c /\ Facet(vs[c], j) \subseteq VertexSet(vs[d])

\* A triangulation with nv vertices whose cells have the vertices vs, the
\* neighbours that go with them, and subdomain indices that differ by cell.
MakeMesh(vs, nv, inf, shift) ==
  [verts |-> [k \in 1..nv |->
                [point |-> [c \in 1..3 |-> (k + c) % (MaxCoord + 1)],
                 dim |-> (k % 5) - 1,
                 info |-> -1,
                 stamp |-> k - 1]],
   cells |-> [c \in 1..Len(vs) |->
                [id |-> c,
                 v |-> vs[c],
                 n |-> [j \in Slots |-> Opposite(vs, c, j)],
                 subdomain |-> (c + shift) % (MaxDomain + 1),
                 info |-> 0,
                 input |-> NoCell,
                 stamp |-> c - 1]],
   inf |-> inf]

\* One tetrahedron and its 4 infinite cells: 5 vertices, 5 cells.
SimplexCells ==
  << <<1, 2, 3, 4>>, <<1, 2, 3, 5>>, <<1, 2, 4, 5>>, <<1, 3, 4, 5>>,
     <<2, 3, 4, 5>> >>

\* Two tetrahedra glued along the facet 1-2-3, and their 6 infinite cells:
\* 6 vertices, 8 cells.
BipyramidCells ==
  << <<1, 2, 3, 4>>, <<1, 2, 3, 5>>, <<1, 2, 4, 6>>, <<2, 3, 4, 6>>,
     <<1, 3, 4, 6>>, <<1, 2, 5, 6>>, <<2, 3, 5, 6>>, <<1, 3, 5, 6>> >>

WellFormedMeshes(shift) ==
  {MakeMesh(SimplexCells, 5, inf, shift) : inf \in 1..5}
    \cup {MakeMesh(BipyramidCells, 6, inf, shift) : inf \in {4, 6}}

\* Triangulations that break an invariant: a neighbour relation that is not
\* symmetric, a cell with a repeated vertex, a facet shared by 3 cells.
NonSymmetricMesh(shift) ==
  LET m == MakeMesh(SimplexCells, 5, 5, shift)
  IN [m EXCEPT !.cells[1].n[1] = m.cells[1].n[2]]

RepeatedVertexMesh(shift) ==
  LET m == MakeMesh(SimplexCells, 5, 5, shift)
  IN [m EXCEPT !.cells[1].v[2] = m.cells[1].v[1]]

TripleFacetMesh(shift) ==
  LET m == MakeMesh(SimplexCells, 5, 5, shift)
  IN [m EXCEPT !.cells = Append(@, [m.cells[1] EXCEPT !.id = 6])]

IllFormedMeshes(shift) ==
  {NonSymmetricMesh(shift), RepeatedVertexMesh(shift), TripleFacetMesh(shift)}

\* What a target holds before the build: nothing, or an earlier triangulation.
PriorMeshes == {ClearedMesh, MakeMesh(SimplexCells, 5, 1, 0)}

\* The invariants of a triangulation: handles in range, 4 distinct vertices
\* per cell, a symmetric neighbour relation across shared facets, and no
\* facet in more than 2 cells.
WellFormed(t) ==
  LET N == Len(t.verts)
      M == Len(t.cells)
  IN /\ t.inf \in 1..N
     /\ \A c \in 1..M :
          /\ \A j \in Slots : t.cells[c].v[j] \in 1..N /\ t.cells[c].n[j] \in 1..M
          /\ Cardinality(VertexSet(t.cells[c].v)) = 4
          /\ \A j \in Slots :
               LET d == t.cells[c].n[j]
                   f == Facet(t.cells[c].v, j)
               IN /\ d # c
                  /\ f \subseteq VertexSet(t.cells[d].v)
                  /\ \E k \in Slots :
                       t.cells[d].n[k] = c /\ t.cells[d].v[k] \notin f
                  /\ Cardinality({e \in 1..M : f \subseteq VertexSet(t.cells[e].v)}) <= 2

\* ------------------------------------------------------------------ copy_tds
\* The default-constructed elements the converters start from in copy_tds;
\* create overwrites every member these vertex and cell types have.
DefaultVertex ==
  [point |-> [k \in 1..3 |-> 0], dim |-> -1, info |-> -1, stamp |-> UnsetStamp]
DefaultCell ==
  [id |-> NoCell, v |-> NullRefs, n |-> NullRefs, subdomain |-> 0, info |-> 0,
   input |-> NoCell, stamp |-> UnsetStamp]

\* create_vertex / create_cell: the element is stored at the end.
create_vertex(t, v) == [t EXCEPT !.verts = Append(@, v)]
create_cell(t, c) == [t EXCEPT !.cells = Append(@, c)]

\* One target vertex for the source vertex of handle i, made by
\* internal::Vertex_converter's create operator.
copy_tds_vertex(s, t, i) ==
  create_vertex(t, internal_Vertex_converter_create(s.verts[i], DefaultVertex))

\* One target cell for the source cell of handle i, made by
\* internal::Cell_converter's create operator.
copy_tds_cell(s, t, i) ==
  create_cell(t, internal_Cell_converter_create(s.cells[i], DefaultCell))

\* The target cells' vertex and neighbour handles, set to the images of the
\* source cell's under the maps V (vertices) and F (cells).
copy_tds_rewire(s, t, V, F) ==
  [t EXCEPT !.cells =
     [d \in 1..Len(t.cells) |->
        IF \E c \in 1..Len(F) : F[c] = d
        THEN LET c == CHOOSE c \in 1..Len(F) : F[c] = d
             IN [t.cells[d] EXCEPT
                   !.v = [j \in Slots |-> V[s.cells[c].v[j]]],
                   !.n = [j \in Slots |-> F[s.cells[c].n[j]]]]
        ELSE t.cells[d]]]

\* ------------------------------------------- build_remeshing_triangulation
\* Faulty variant: the target is not cleared.
remeshing_tr_clear_Skipped(t) == t

\* remeshing_tr.clear()
remeshing_tr_clear(t) == ClearedMesh

\* Faulty variant: the first vertex is passed, not the infinite one.
infinite_vertex_First(t) == 1

\* tr.infinite_vertex(), remeshing_tr.infinite_vertex()
infinite_vertex(t) == t.inf

\* set_infinite_vertex(v)
set_infinite_vertex(t, v) == [t EXCEPT !.inf = v]

\* Faulty variant: the target is not cleared.
tr_clear_Skipped(t) == t

\* tr.clear()
tr_clear(t) == ClearedMesh

Init ==
  /\ \E shift \in Subdomains :
       tr \in WellFormedMeshes(shift) \cup IllFormedMeshes(shift)
  /\ remeshing_tr \in PriorMeshes
  /\ tr2 \in PriorMeshes
  /\ prior = remeshing_tr
  /\ pc = "b1_start"
  /\ V1 = <<>> /\ F1 = <<>> /\ V2 = <<>> /\ F2 = <<>>
  /\ err = "none"
  /\ ConvIdle
  /\ VisitorIdle

B1Clear ==
  /\ pc = "b1_start"
  /\ remeshing_tr' = remeshing_tr_clear(remeshing_tr)
  /\ pc' = "b1_vertices"
  /\ UNCHANGED <<tr, tr2, prior, V1, F1, V2, F2, err>>
  /\ UNCHANGED convVars /\ UNCHANGED visitorVars

B1Vertex ==
  /\ pc = "b1_vertices"
  /\ Len(V1) < Len(tr.verts)
  /\ remeshing_tr' = copy_tds_vertex(tr, remeshing_tr, Len(V1) + 1)
  /\ V1' = Append(V1, Len(remeshing_tr.verts) + 1)
  /\ pc' = IF Len(V1) + 1 = Len(tr.verts) THEN "b1_cells" ELSE pc
  /\ UNCHANGED <<tr, tr2, prior, F1, V2, F2, err>>
  /\ UNCHANGED convVars /\ UNCHANGED visitorVars

B1Cell ==
  /\ pc = "b1_cells"
  /\ Len(F1) < Len(tr.cells)
  /\ remeshing_tr' = copy_tds_cell(tr, remeshing_tr, Len(F1) + 1)
  /\ F1' = Append(F1, Len(remeshing_tr.cells) + 1)
  /\ pc' = IF Len(F1) + 1 = Len(tr.cells) THEN "b1_rewire" ELSE pc
  /\ UNCHANGED <<tr, tr2, prior, V1, V2, F2, err>>
  /\ UNCHANGED convVars /\ UNCHANGED visitorVars

B1Rewire ==
  /\ pc = "b1_rewire"
  /\ remeshing_tr' = copy_tds_rewire(tr, remeshing_tr, V1, F1)
  /\ pc' = "b1_return"
  /\ UNCHANGED <<tr, tr2, prior, V1, F1, V2, F2, err>>
  /\ UNCHANGED convVars /\ UNCHANGED visitorVars

B1SetInfinite ==
  /\ pc = "b1_return"
  /\ remeshing_tr' = set_infinite_vertex(remeshing_tr, V1[infinite_vertex(tr)])
  /\ pc' = "b1_done"
  /\ UNCHANGED <<tr, tr2, prior, V1, F1, V2, F2, err>>
  /\ UNCHANGED convVars /\ UNCHANGED visitorVars

\* A converter call or an allocation of copy_tds fails: the exception leaves
\* build_remeshing_triangulation, which has no handler, with the target as
\* built so far.
B1Fail ==
  /\ pc \in {"b1_vertices", "b1_cells"}
  /\ pc' = "b1_failed"
  /\ err' = "policy"
  /\ UNCHANGED <<tr, remeshing_tr, tr2, prior, V1, F1, V2, F2>>
  /\ UNCHANGED convVars /\ UNCHANGED visitorVars

\* -------------------------------------- build_from_remeshing_triangulation
B2Clear ==
  /\ pc = "b1_done"
  /\ tr2' = tr_clear(tr2)
  /\ pc' = "b2_vertices"
  /\ UNCHANGED <<tr, remeshing_tr, prior, V1, F1, V2, F2, err>>
  /\ UNCHANGED convVars /\ UNCHANGED visitorVars

B2Vertex ==
  /\ pc = "b2_vertices"
  /\ Len(V2) < Len(remeshing_tr.verts)
  /\ tr2' = copy_tds_vertex(remeshing_tr, tr2, Len(V2) + 1)
  /\ V2' = Append(V2, Len(tr2.verts) + 1)
  /\ pc' = IF Len(V2) + 1 = Len(remeshing_tr.verts) THEN "b2_cells" ELSE pc
  /\ UNCHANGED <<tr, remeshing_tr, prior, V1, F1, F2, err>>
  /\ UNCHANGED convVars /\ UNCHANGED visitorVars

B2Cell ==
  /\ pc = "b2_cells"
  /\ Len(F2) < Len(remeshing_tr.cells)
  /\ tr2' = copy_tds_cell(remeshing_tr, tr2, Len(F2) + 1)
  /\ F2' = Append(F2, Len(tr2.cells) + 1)
  /\ pc' = IF Len(F2) + 1 = Len(remeshing_tr.cells) THEN "b2_rewire" ELSE pc
  /\ UNCHANGED <<tr, remeshing_tr, prior, V1, F1, V2, err>>
  /\ UNCHANGED convVars /\ UNCHANGED visitorVars

B2Rewire ==
  /\ pc = "b2_rewire"
  /\ tr2' = copy_tds_rewire(remeshing_tr, tr2, V2, F2)
  /\ pc' = "b2_return"
  /\ UNCHANGED <<tr, remeshing_tr, prior, V1, F1, V2, F2, err>>
  /\ UNCHANGED convVars /\ UNCHANGED visitorVars

B2SetInfinite ==
  /\ pc = "b2_return"
  /\ tr2' = set_infinite_vertex(tr2, V2[infinite_vertex(remeshing_tr)])
  /\ pc' = "b2_done"
  /\ UNCHANGED <<tr, remeshing_tr, prior, V1, F1, V2, F2, err>>
  /\ UNCHANGED convVars /\ UNCHANGED visitorVars

B2Fail ==
  /\ pc \in {"b2_vertices", "b2_cells"}
  /\ pc' = "b2_failed"
  /\ err' = "policy"
  /\ UNCHANGED <<tr, remeshing_tr, tr2, prior, V1, F1, V2, F2>>
  /\ UNCHANGED convVars /\ UNCHANGED visitorVars

Next ==
  \/ B1Clear \/ B1Vertex \/ B1Cell \/ B1Rewire \/ B1SetInfinite \/ B1Fail
  \/ B2Clear \/ B2Vertex \/ B2Cell \/ B2Rewire \/ B2SetInfinite \/ B2Fail

Spec == Init /\ [][Next]_vars

\* ------------------------------------------------- Default_remeshing_visitor
\* A hook sees the triangulation and the visitor; st is the pair of them and
\* the result is the pair after the call.
before_split(st, e) == st

after_split(st, new_v) == st

\* Faulty variant: a hook that copies the old cell's subdomain index
\* to the new cell.
after_add_cell_CopySubdomain(st, co, cn) ==
  [st EXCEPT !.tr.cells[cn].subdomain = st.tr.cells[co].subdomain]

after_add_cell(st, co, cn) == st

before_flip(st, c) == st

after_flip(st, c) == st

VisitorState == [tr |-> vtr, visitor |-> m_visitor]

\* The edges of a triangulation: a cell and two of its slots.
Edges(t) == {<<c, i, j>> : c \in 1..Len(t.cells), i \in {1, 2}, j \in {3, 4}}

InitVisitor ==
  /\ \E shift \in Subdomains : vtr \in WellFormedMeshes(shift)
  /\ m_visitor = <<>>
  /\ calls = 0
  /\ hook = <<"none">>
  /\ ConvIdle
  /\ CloneIdle

Called(st, name) ==
  /\ calls < MaxCalls
  /\ vtr' = st.tr
  /\ m_visitor' = st.visitor
  /\ calls' = calls + 1
  /\ hook' = name
  /\ UNCHANGED convVars /\ UNCHANGED cloneVars

BeforeSplit ==
  \E e \in Edges(vtr) :
    Called(before_split(VisitorState, e), <<"before_split", e>>)

AfterSplit ==
  \E new_v \in 1..Len(vtr.verts) :
    Called(after_split(VisitorState, new_v), <<"after_split", new_v>>)

AfterAddCell ==
  \E co \in 1..Len(vtr.cells), cn \in 1..Len(vtr.cells) :
    Called(after_add_cell(VisitorState, co, cn), <<"after_add_cell", co, cn>>)

BeforeFlip ==
  \E c \in 1..Len(vtr.cells) :
    Called(before_flip(VisitorState, c), <<"before_flip", c>>)

AfterFlip ==
  \E c \in 1..Len(vtr.cells) :
    Called(after_flip(VisitorState, c), <<"after_flip", c>>)

NextVisitor == BeforeSplit \/ AfterSplit \/ AfterAddCell \/ BeforeFlip \/ AfterFlip

SpecVisitor == InitVisitor /\ [][NextVisitor]_vars

\* ==================================================================== claims
\* t is a copy of s under the maps V and F: as many vertices and cells, V and
\* F one-to-one onto t's handles, and every cell's vertex and neighbour
\* slots the images of the source cell's.
IsCopy(s, t, V, F) ==
  /\ Len(t.verts) = Len(s.verts) /\ Len(V) = Len(s.verts)
  /\ Len(t.cells) = Len(s.cells) /\ Len(F) = Len(s.cells)
  /\ {V[v] : v \in 1..Len(V)} = 1..Len(t.verts)
  /\ {F[c] : c \in 1..Len(F)} = 1..Len(t.cells)
  /\ \A c \in 1..Len(s.cells) : \A j \in Slots :
       /\ t.cells[F[c]].v[j] = V[s.cells[c].v[j]]
       /\ t.cells[F[c]].n[j] = F[s.cells[c].n[j]]

\* t's infinite vertex is the image of s's, and of no other vertex.
InfiniteIsImage(s, t, V) ==
  /\ t.inf \in 1..Len(t.verts)
  /\ t.inf = V[s.inf]
  /\ \A v \in 1..Len(s.verts) : (V[v] = t.inf) <=> (v = s.inf)

\* The positions at which build_remeshing_triangulation has returned.
AfterBuild1 ==
  {"b1_done", "b2_vertices", "b2_cells", "b2_rewire", "b2_return", "b2_done",
   "b2_failed"}

\* C1: for a well-formed source with N vertices and M cells and any prior
\* content of the target, once build_remeshing_triangulation has returned the
\* target has exactly N vertices and M cells and is a copy of the source
\* under a bijection of the vertices and one of the cells.
C1_CloneIsomorphic ==
  (pc \in AfterBuild1 /\ WellFormed(tr)) => IsCopy(tr, remeshing_tr, V1, F1)

C1_Witness ==
  /\ pc = "b1_done" /\ WellFormed(tr)
  /\ prior # ClearedMesh /\ Len(tr.cells) = 8

\* C2: after either build function has completed, the target's infinite
\* vertex is the image of the source's infinite vertex, no finite source
\* vertex is mapped to it, and it is one vertex of the target.
C2_InfinitePreserved ==
  /\ pc \in AfterBuild1 => InfiniteIsImage(tr, remeshing_tr, V1)
  /\ pc = "b2_done" => InfiniteIsImage(remeshing_tr, tr2, V2)

C2_Witness ==
  pc = "b2_done" /\ tr.inf = 3 /\ remeshing_tr.inf = 3 /\ tr2.inf = 3

\* C3: whenever build_remeshing_triangulation has returned or failed, the
\* target is the complete copy of the source or is cleared.
C3_AllOrNothing ==
  pc \in AfterBuild1 \cup {"b1_failed"} =>
    \/ remeshing_tr = ClearedMesh
    \/ /\ IsCopy(tr, remeshing_tr, V1, F1)
       /\ InfiniteIsImage(tr, remeshing_tr, V1)

\* C4: a source that violates a structural invariant is detected: the build
\* never returns normally with a target for it.
C4_IllFormedRejected ==
  pc \in AfterBuild1 => WellFormed(tr)

\* C9: for a well-formed triangulation, build_remeshing_triangulation followed
\* by build_from_remeshing_triangulation gives a triangulation that is a copy
\* of the first under one bijection, infinite vertex to infinite vertex.
C9_RoundTrip ==
  (pc = "b2_done" /\ WellFormed(tr)) =>
    LET W == [v \in 1..Len(V1) |-> V2[V1[v]]]
        G == [c \in 1..Len(F1) |-> F2[F1[c]]]
    IN IsCopy(tr, tr2, W, G) /\ InfiniteIsImage(tr, tr2, W)

C9_Witness ==
  /\ pc = "b2_done" /\ WellFormed(tr)
  /\ Len(tr.cells) = 8 /\ Len(tr2.cells) = 8 /\ tr.inf = 4

\* C5: for every source cell and in both variants, create and update leave
\* the target cell's subdomain index equal to the source cell's.
C5_SubdomainCopied ==
  (kind = "cell" /\ hist # <<>>) => tgt.subdomain = src.subdomain

\* C6 as stated: fresh variant: dimension 3, no source info carried;
\* preserving variant: the target's dimension is the source's dimension tag
\* and the target's info is the source's info.
C6_DimensionFollowsPolicy ==
  (kind = "vertex" /\ hist # <<>>) =>
    /\ policy = "fresh" => (tgt.dim = FreshDimension /\ tgt.info = prev.info)
    /\ policy = "preserving" => (tgt.dim = src.dim /\ tgt.info = src.info)

\* C6 as amended: fresh variant: dimension 3 and the target's info left as it
\* was; preserving variant: the target's dimension is the source vertex's
\* info, and the target's info is left as it was.
C6_DimensionFromInfo ==
  (kind = "vertex" /\ hist # <<>>) =>
    /\ policy = "fresh" => (tgt.dim = FreshDimension /\ tgt.info = prev.info)
    /\ policy = "preserving" => (tgt.dim = src.info /\ tgt.info = prev.info)

C6_Witness ==
  /\ kind = "vertex" /\ policy = "preserving" /\ LastOp = "create"
  /\ src.dim # src.info /\ src.info # prev.info

\* C7 as stated: after create or update of any converter, the target's time
\* stamp is the unset sentinel -1.
C7_StampAlwaysReset ==
  hist # <<>> => tgt.stamp = UnsetStamp

\* C7 as amended: after create the target's time stamp is -1; update leaves
\* the target's time stamp as it was.
C7_StampResetByCreate ==
  /\ LastOp = "create" => tgt.stamp = UnsetStamp
  /\ LastOp = "update" => tgt.stamp = prev.stamp

C7_Witness ==
  /\ hist = <<"update">> /\ prev.stamp = MaxStamp /\ src.stamp = 0

\* C8: for each of the four converters, applying update a second time with the
\* same source leaves the target as the first application left it.
C8_UpdateIdempotent ==
  (/\ Len(hist) >= 2
   /\ hist[Len(hist)] = "update"
   /\ hist[Len(hist) - 1] = "update") => tgt = prev

C8_Witness ==
  /\ hist = <<"update", "update">> /\ kind = "cell" /\ policy = "preserving"
  /\ src.info = MaxDomain

\* C10: no call of a hook of Default_remeshing_visitor changes the
\* triangulation, its elements or the visitor.
C10_HooksChangeNothing ==
  [][vtr' = vtr /\ m_visitor' = m_visitor]_vars

C10_Witness ==
  calls = MaxCalls /\ hook = <<"after_add_cell", 1, 2>>
====
